---- MODULE Spec2Model ----
(***************************************************************************)
(* Model of these parts of lurk-rs:                                        *)
(*   - MultiFrame::from_frames, the frame packer (src/lem/multiframe.rs);  *)
(*   - Groth16Prover::outer_prove, the proof driver (src/proof/groth16.rs);*)
(*   - the LightData byte codec ser / de (src/light_data/mod.rs);          *)
(*   - the public-parameter registry (src/public_parameters/registry.rs);  *)
(*   - the arithmetic helpers byte_count and frame_padding_count;          *)
(*   - MultiFrame::synthesize and check_cs_deltas (src/lem/multiframe.rs); *)
(*   - the ZData serde serializer (src/z_data/serde/ser.rs);               *)
(*   - verify_sequential_groth16_proofs (src/proof/groth16.rs).            *)
(* Each part has its own specification over the same variables; the        *)
(* variables of the other parts stay at their initial value.               *)
(***************************************************************************)
EXTENDS Integers, Sequences, FiniteSets, TLC

VARIABLES
    frames,        \* from_frames: the `frames` argument (evaluation trace)
    count,         \* from_frames: the `count` argument (reduction count)
    rest,          \* from_frames: what frames.chunks(count) has not yielded yet
    multi_frames,  \* from_frames: the `multi_frames` vector being built
    mf_pc,         \* from_frames: "loop" while in the for loop, "done" after return
    ld_x,          \* codec: the LightData value under test
    ld_bytes,      \* codec: x.ser(), once computed
    ld_res,        \* codec: LightData::de(bytes), once computed
    ld_pc,         \* codec: "start", "serialized", "done" or "panicked"
    pc,            \* registry: where each thread is in get_coprocessor_or_update_with
    lock,          \* registry: the holder of the registry Mutex, or NoThread
    reg,           \* registry: the AnyMap, coprocessor type -> PublicParamMemCache
    disk,          \* registry: the files of the disk cache, name -> content
    call,          \* registry: the arguments, locals and outcome of each thread's call
    nextArc,       \* registry: the next fresh Arc allocation
    ncalls,        \* registry: the number of calls made so far
    succeeded,     \* registry: per (type, rc, abomonated), the first handle returned
    overlap,       \* registry: the threads whose call overlapped each thread's call
    pv_pc,         \* outer_prove: position in the function body
    proofs,        \* outer_prove: the `proofs` vector
    statements,    \* outer_prove: the `statements` vector
    dummy,         \* outer_prove: dummy_multiframe, once made
    pv_ret,        \* outer_prove: the returned Result, once returned
    fn_n,          \* helpers: the usize argument
    fn_rc,         \* helpers: the prover's reduction_count
    fn_pc,         \* helpers: "start", then the name of the function applied
    fn_res,        \* helpers: the value the function returned
    syn_pc,        \* synthesis: position in outer_synthesize / check_cs_deltas
    css,           \* synthesis: the SequentialCS built by outer_synthesize
    cs_blank,      \* synthesis: the result of synthesizing the blank multi-frame
    sz_pc,         \* serde: "start", "encoded", "done"
    sz_x,          \* serde: the value being serialized
    sz_enc,        \* serde: value.ser() by Encodable
    sz_zd,         \* serde: to_z_data(value)
    ss,            \* serde: the StructSerializer in use
    ss_given,      \* serde: the variant_index given to serialize_struct_variant
    ss_out,        \* serde: what SerializeStructVariant::end returned
    vf_pc,         \* verify: position in verify_sequential_groth16_proofs
    multiframe_proofs, \* verify: the `multiframe_proofs` argument
    vk,            \* verify: the `vk` argument
    vf_i,          \* verify: the loop index i
    vf_ret         \* verify: the returned Result, once returned

mfVars == <<frames, count, rest, multi_frames, mf_pc>>

ldVars == <<ld_x, ld_bytes, ld_res, ld_pc>>

regVars == <<pc, lock, reg, disk, call, nextArc, ncalls, succeeded, overlap>>

pvVars == <<pv_pc, proofs, statements, dummy, pv_ret>>

fnVars == <<fn_n, fn_rc, fn_pc, fn_res>>

synVars == <<syn_pc, css, cs_blank>>

szVars == <<sz_pc, sz_x, sz_enc, sz_zd, ss, ss_given, ss_out>>

vfVars == <<vf_pc, multiframe_proofs, vk, vf_i, vf_ret>>

vars == <<mfVars, ldVars, regVars, pvVars, fnVars, synVars, szVars, vfVars>>

(***************************************************************************)
(* Bounds.                                                                 *)
(***************************************************************************)
MaxFrames == 4
MaxCount == 3
MaxLDLen == 300
MaxCalls == 3
MaxFnN == 70
MaxSzLen == 2
MaxFields == 3

MaxPairs == 3

MaxDeLen == 64

Min(a, b) == IF a < b THEN a ELSE b

(***************************************************************************)
(* Frames for the packer.  A Ptr is an opaque handle; an IO is the         *)
(* Vec<Ptr> (expr, env, cont) of a frame's input or output.                *)
(***************************************************************************)
ExprPtrs == {"a", "b"}

EnvPtrs == {"nil"}

ContPtrs == {"Outermost", "Terminal"}

IOs == ExprPtrs \X EnvPtrs \X ContPtrs

Frame(i, o) == [input |-> i, output |-> o, blank |-> FALSE]

\* Option<T>: None, or Some(v)
None == [some |-> FALSE]
Some(v) == [some |-> TRUE, val |-> v]

\* The frame sequences an evaluation can hand to from_frames: each frame's
\* output is the next frame's input.  A sequence of L frames is a path of
\* L+1 IOs.
FramesOfPath(p) == [i \in 1..(Len(p) - 1) |-> Frame(p[i], p[i + 1])]

ChainedFrames ==
    {<<>>} \cup UNION {{FramesOfPath(p) : p \in [1..(L + 1) -> IOs]} : L \in 1..MaxFrames}

IsChained(fs) == \A i \in 1..(Len(fs) - 1) : fs[i].output = fs[i + 1].input

(***************************************************************************)
(* MultiFrame::from_frames                                                 *)
(***************************************************************************)
\* slice::chunks(count): the next chunk is the first `count` elements of what
\* is left, or all of it when fewer are left.
NextChunk(r, c) == SubSeq(r, 1, Min(c, Len(r)))

AfterChunk(r, c) == SubSeq(r, Min(c, Len(r)) + 1, Len(r))

\* Vec::resize(count, value): extend with clones of value up to length count.
Resize(v, n, value) == [i \in 1..n |-> IF i <= Len(v) THEN v[i] ELSE value]

\* chunk.last()
Last(s) == s[Len(s)]

\* mutant: the short chunk is filled with its first frame
InnerFrames_first(chunk, c) ==
    IF Len(chunk) < c THEN Resize(chunk, c, chunk[1]) ELSE chunk

\* lines 156-163: inner_frames of one chunk
InnerFrames(chunk, c) ==
    IF Len(chunk) < c THEN Resize(chunk, c, Last(chunk)) ELSE chunk

\* mutant: the outer output is taken from the first frame of the chunk
ChunkOutput_first(chunk) == chunk[1].output

\* line 165: the outer output of one chunk
ChunkOutput(chunk) == Last(chunk).output

\* mutant: the outer input is taken from the last frame of the chunk
ChunkInput_last(chunk) == Last(chunk).input

\* line 166: the outer input of one chunk
ChunkInput(chunk) == chunk[1].input

\* lines 168-177: the MultiFrame built from one chunk
MakeMultiFrame(chunk, c) ==
    [ store |-> TRUE,
      input |-> Some(ChunkInput(chunk)),
      output |-> Some(ChunkOutput(chunk)),
      frames |-> Some(InnerFrames(chunk, c)),
      reduction_count |-> c ]

\* mutant: the inputs of the two multi-frames are compared
precedes_inputs(m, maybe_next) == m.input = maybe_next.input

\* MultiFrame::precedes
precedes(m, maybe_next) == m.output = maybe_next.input

EmptyMap == [x \in {} |-> x]

NoThread == "none"

\* the registry is not in use
RegIdle ==
    /\ pc = EmptyMap
    /\ lock = NoThread
    /\ reg = EmptyMap
    /\ disk = EmptyMap
    /\ call = EmptyMap
    /\ nextArc = 0
    /\ ncalls = 0
    /\ succeeded = EmptyMap
    /\ overlap = EmptyMap

\* the codec is not running
LDIdle ==
    /\ ld_x = None
    /\ ld_bytes = None
    /\ ld_res = None
    /\ ld_pc = "idle"

\* outer_prove has not started
PvIdle ==
    /\ pv_pc = "idle"
    /\ proofs = <<>>
    /\ statements = <<>>
    /\ dummy = None
    /\ pv_ret = None

\* no helper is being applied
FnIdle ==
    /\ fn_n = 0
    /\ fn_rc = 1
    /\ fn_pc = "idle"
    /\ fn_res = None

\* no circuit is being synthesized
SynIdle ==
    /\ syn_pc = "idle"
    /\ css = <<>>
    /\ cs_blank = None

\* the serde Serializer is not in use
SzIdle ==
    /\ sz_pc = "idle"
    /\ sz_x = None
    /\ sz_enc = None
    /\ sz_zd = None
    /\ ss = None
    /\ ss_given = 0
    /\ ss_out = None

\* verify_sequential_groth16_proofs has not been called
VfIdle ==
    /\ vf_pc = "idle"
    /\ multiframe_proofs = <<>>
    /\ vk = None
    /\ vf_i = 0
    /\ vf_ret = None

MFInit ==
    /\ LDIdle
    /\ RegIdle
    /\ PvIdle
    /\ VfIdle
    /\ SzIdle
    /\ SynIdle
    /\ FnIdle
    /\ frames \in ChainedFrames
    /\ count \in 1..MaxCount
    /\ rest = frames
    /\ multi_frames = <<>>
    /\ mf_pc = "loop"

\* one iteration of `for chunk in frames.chunks(count)`
FromFramesChunk ==
    /\ mf_pc = "loop"
    /\ rest # <<>>
    /\ multi_frames' = Append(multi_frames, MakeMultiFrame(NextChunk(rest, count), count))
    /\ rest' = AfterChunk(rest, count)
    /\ UNCHANGED <<frames, count, mf_pc>>
    /\ UNCHANGED <<ldVars, regVars, pvVars, fnVars, synVars, szVars, vfVars>>

\* the loop is exhausted: return multi_frames
FromFramesReturn ==
    /\ mf_pc = "loop"
    /\ rest = <<>>
    /\ mf_pc' = "done"
    /\ UNCHANGED <<frames, count, rest, multi_frames>>
    /\ UNCHANGED <<ldVars, regVars, pvVars, fnVars, synVars, szVars, vfVars>>

MFNext == FromFramesChunk \/ FromFramesReturn

SpecMF == MFInit /\ [][MFNext]_vars

(***************************************************************************)
(* Properties of the packer.                                               *)
(***************************************************************************)
\* the smallest k with k * n >= l
CeilDiv(l, n) == CHOOSE k \in 0..l : k * n >= l /\ (k = 0 \/ (k - 1) * n < l)

\* the frames of all multi-frames, one after the other
AllInnerFrames ==
    [j \in 1..(Len(multi_frames) * count) |->
        multi_frames[((j - 1) \div count) + 1].frames.val[((j - 1) % count) + 1]]

\* the number of frames of the trace that multi-frame i holds
RealIn(i) == Min(count, Len(frames) - (i - 1) * count)

\* C1: the multi-frames built from a chained frame sequence chain: each
\* multi-frame precedes the next one (its output is the next one's input).
C1_MultiFramesChain ==
    \A i \in 1..(Len(multi_frames) - 1) : precedes(multi_frames[i], multi_frames[i + 1])

C1_Witness ==
    /\ mf_pc = "done"
    /\ Len(multi_frames) >= 2
    /\ count >= 2
    /\ multi_frames[1].output # multi_frames[1].input
    /\ multi_frames[1].frames.val[1].output # multi_frames[1].output.val

\* C2: from_frames returns ceil(L/N) multi-frames of exactly N frames each;
\* the frames of the trace appear in order, none dropped or duplicated, and
\* the positions after the last frame of the trace hold copies of that frame
\* (so only the last multi-frame is padded).
C2_PackingShape ==
    mf_pc = "done" =>
        /\ Len(multi_frames) = CeilDiv(Len(frames), count)
        /\ \A i \in 1..Len(multi_frames) :
              /\ multi_frames[i].frames.some
              /\ Len(multi_frames[i].frames.val) = count
              /\ multi_frames[i].reduction_count = count
        /\ Len(AllInnerFrames) >= Len(frames)
        /\ SubSeq(AllInnerFrames, 1, Len(frames)) = frames
        /\ \A j \in (Len(frames) + 1)..Len(AllInnerFrames) :
              AllInnerFrames[j] = frames[Len(frames)]
        /\ Len(AllInnerFrames) - Len(frames) < count

C2_Witness ==
    /\ mf_pc = "done"
    /\ Len(frames) > count
    /\ Len(frames) % count # 0
    /\ count - (Len(frames) % count) >= 2
    /\ frames[Len(frames)] # frames[Len(frames) - 1]

\* C3: every padding frame added to a short final chunk has input = output.
C3_PaddingFramesAreIdentity ==
    \A i \in 1..Len(multi_frames) :
        \A j \in (RealIn(i) + 1)..count :
            multi_frames[i].frames.val[j].input = multi_frames[i].frames.val[j].output

\* C4: the outer input of every multi-frame is the input of its first frame
\* and its outer output is the output of its last frame.
C4_OuterIO ==
    \A i \in 1..Len(multi_frames) :
        /\ multi_frames[i].input = Some(multi_frames[i].frames.val[1].input)
        /\ multi_frames[i].output =
              Some(multi_frames[i].frames.val[Len(multi_frames[i].frames.val)].output)

C4_Witness ==
    /\ mf_pc = "done"
    /\ \E i \in 1..Len(multi_frames) :
          /\ RealIn(i) < count
          /\ RealIn(i) >= 2
          /\ multi_frames[i].frames.val[1].output # multi_frames[i].output.val
          /\ multi_frames[i].frames.val[count].input # multi_frames[i].input.val

(***************************************************************************)
(* LightData: Atom(Vec<u8>) | Cell(Vec<LightData>), and its byte codec.    *)
(***************************************************************************)
Atom(xs) == [kind |-> "Atom", xs |-> xs]

Cell(xs) == [kind |-> "Cell", xs |-> xs]

\* Result<T, ()>
Ok(v) == [ok |-> TRUE, val |-> v]

Err == [ok |-> FALSE]

RECURSIVE ilog2(_)
\* usize::ilog2: floor of the base-2 logarithm, x >= 1
ilog2(x) == IF x < 2 THEN 0 ELSE 1 + ilog2(x \div 2)

\* mutant: the bit length rounded down to whole bytes
byte_count_floor(x) == IF x = 0 THEN 1 ELSE ((ilog2(x) + 1) \div 8) + 1

\* LightData::byte_count
byte_count(x) == IF x = 0 THEN 1 ELSE (ilog2(x) \div 8) + 1

RECURSIVE Pow256(_)
Pow256(n) == IF n = 0 THEN 1 ELSE 256 * Pow256(n - 1)

\* usize::to_le_bytes()[..n]: the n low bytes, least significant first
le_bytes(x, n) == [i \in 1..n |-> (x \div Pow256(i - 1)) % 256]

\* LightData::to_trimmed_le_bytes
to_trimmed_le_bytes(x) == le_bytes(x, byte_count(x))

\* LightData::tag; 0b0100_0000 = 64, 0b1000_0000 = 128, 0b1100_0000 = 192
tag(x) ==
    LET len == Len(x.xs) IN
    IF x.kind = "Atom"
    THEN IF len = 0 THEN 0
         ELSE IF len < 64 THEN 64 + len
         ELSE IF len = 64 THEN 64
         ELSE byte_count(len)
    ELSE IF len = 0 THEN 128
         ELSE IF len < 64 THEN 192 + len
         ELSE IF len = 64 THEN 192
         ELSE 128 + byte_count(len)

\* x & 0b1000_0000 == 0
tag_is_atom(t) == (t \div 128) % 2 = 0

\* x & 0b0100_0000 == 0b0100_0000
tag_is_small(t) == (t \div 64) % 2 = 1

RECURSIVE ser(_)
RECURSIVE ser_all(_, _, _)
\* `for x in xs { res.extend(x.ser()) }` over the elements lo..hi of xs; the
\* range is split in halves to keep the evaluation shallow
ser_all(xs, lo, hi) ==
    IF lo > hi THEN <<>>
    ELSE IF lo = hi THEN ser(xs[lo])
    ELSE LET mid == (lo + hi) \div 2 IN ser_all(xs, lo, mid) \o ser_all(xs, mid + 1, hi)

\* LightData::ser
ser(x) ==
    LET len == Len(x.xs) IN
    <<tag(x)>> \o
    IF x.kind = "Atom"
    THEN IF len = 0 THEN <<>>
         ELSE IF len <= 64 THEN x.xs
         ELSE to_trimmed_le_bytes(len) \o x.xs
    ELSE IF len = 0 THEN <<>>
         ELSE IF len <= 64 THEN ser_all(x.xs, 1, len)
         ELSE to_trimmed_le_bytes(len) \o ser_all(x.xs, 1, len)

\* usize on the 64-bit targets: 8 bytes.  A usize is held as its 8 base-256
\* digits, most significant first.
UsizeBytes == 8

UsizeZero == [j \in 1..UsizeBytes |-> 0]

\* (acc * 256) + x: the digits move up by one place and x becomes the lowest;
\* the multiplication overflows usize iff the highest digit of acc is not 0.
\* digits is the wrapped result, ovf tells whether this or an earlier step
\* overflowed.
MulAdd256(acc, x) ==
    [ digits |-> Append(Tail(acc.digits), x),
      ovf |-> acc.ovf \/ acc.digits[1] # 0 ]

RECURSIVE fold_size(_, _, _, _)
\* size.iter().fold(0, |acc, &x| (acc * 256) + x as usize) over i[from..=to];
\* the accumulator of each step is a usize before the next step is taken
fold_size(i, from, to, acc) ==
    IF from > to THEN acc
    ELSE LET next == MulAdd256(acc, i[from]) IN
         CASE Len(next.digits) = UsizeBytes -> fold_size(i, from + 1, to, next)

\* a length that no input reaches
SizeCap == 16777216

\* the usize with these digits as a number; every value of SizeCap or more
\* stands as SizeCap, which take and count treat alike: the input is shorter
UsizeValue(digits) ==
    IF \E j \in 1..(UsizeBytes - 3) : digits[j] # 0 THEN SizeCap
    ELSE (digits[UsizeBytes - 2] * 65536) + (digits[UsizeBytes - 1] * 256) + digits[UsizeBytes]

\* A parse result: the value and the position of the first byte not consumed,
\* or an error; ovf tells whether a length fold overflowed usize on the way.
\* Positions index the input of de, starting at 1.
POk(pos, v, ovf) == [ok |-> TRUE, pos |-> pos, val |-> v, ovf |-> ovf]

PErr(ovf) == [ok |-> FALSE, ovf |-> ovf]

\* lines 132-140 and 144-152: the length of the atom or cell whose tag byte t
\* was just read; pos is the position after the tag
de_size(i, pos, t) ==
    LET size == t % 64 IN
    IF tag_is_small(t)
    THEN POk(pos, IF size = 0 THEN 64 ELSE size, FALSE)
    ELSE IF pos + size - 1 > Len(i) THEN PErr(FALSE)
         ELSE LET f == fold_size(i, pos, pos + size - 1,
                                 [digits |-> UsizeZero, ovf |-> FALSE])
              IN  POk(pos + size, UsizeValue(f.digits), f.ovf)

RECURSIVE de_aux(_, _)
RECURSIVE de_count(_, _, _)
\* nom::multi::count(LightData::de_aux, n): n values parsed one after the
\* other from position pos, failing at the first one that fails; the n values
\* are parsed as two consecutive runs to keep the evaluation shallow
de_count(i, pos, n) ==
    IF n = 0 THEN POk(pos, <<>>, FALSE)
    ELSE IF n = 1
         THEN LET r == de_aux(i, pos) IN
              IF ~r.ok THEN PErr(r.ovf) ELSE POk(r.pos, <<r.val>>, r.ovf)
         ELSE LET h == n \div 2
                  r1 == de_count(i, pos, h)
              IN  IF ~r1.ok THEN PErr(r1.ovf)
                  ELSE LET r2 == de_count(i, r1.pos, n - h) IN
                       IF ~r2.ok THEN PErr(r1.ovf \/ r2.ovf)
                       ELSE POk(r2.pos, r1.val \o r2.val, r1.ovf \/ r2.ovf)

\* LightData::de_aux on the input i from position pos
de_aux(i, pos) ==
    IF pos > Len(i) THEN PErr(FALSE)
    ELSE LET t == i[pos]
             s == de_size(i, pos + 1, t)
         IN  IF ~s.ok THEN PErr(s.ovf)
             ELSE IF tag_is_atom(t)
                  THEN IF s.pos + s.val - 1 > Len(i) THEN PErr(s.ovf)
                       ELSE POk(s.pos + s.val, Atom(SubSeq(i, s.pos, s.pos + s.val - 1)), s.ovf)
                  ELSE LET r == de_count(i, s.pos, s.val) IN
                       IF ~r.ok THEN PErr(s.ovf \/ r.ovf)
                       ELSE POk(r.pos, Cell(r.val), s.ovf \/ r.ovf)

\* whether a length fold of LightData::de(i) overflows usize
de_overflows(i) == de_aux(i, 1).ovf

\* LightData::de
de(i) == LET r == de_aux(i, 1) IN IF r.ok THEN Ok(r.val) ELSE Err

(***************************************************************************)
(* The codec round trip: serialize a value, then deserialize the bytes.    *)
(***************************************************************************)
\* the packer is not running
MFIdle ==
    /\ frames = <<>>
    /\ count = 1
    /\ rest = <<>>
    /\ multi_frames = <<>>
    /\ mf_pc = "idle"

\* lengths on both sides of every boundary of the tag layout
LDLens == {0, 1, 2, 63, 64, 65, 255, 256, 257, MaxLDLen}

LDFills == {0, 100, 200}

\* an atom of n bytes, all positions told apart by their value
AtomOf(n, f) == Atom([i \in 1..n |-> (f + i) % 256])

LDChild(k) ==
    IF k % 3 = 0 THEN Atom(<<>>)
    ELSE IF k % 3 = 1 THEN Atom(<<k % 256>>)
    ELSE Cell(<<Atom(<<1>>), Cell(<<>>)>>)

\* a cell of n children
CellOf(n, f) == Cell([i \in 1..n |-> LDChild(f + i)])

\* the values under test, named by <<kind, length, fill>>
LDInputNames ==
    ({"Atom", "Cell"} \X LDLens \X LDFills) \cup ({"Nested"} \X {1, 2, 3} \X {0})

LDInput(name) ==
    IF name[1] = "Atom" THEN AtomOf(name[2], name[3])
    ELSE IF name[1] = "Cell" THEN CellOf(name[2], name[3])
    ELSE IF name[2] = 1 THEN Cell(<<AtomOf(65, 0), CellOf(2, 0)>>)
    ELSE IF name[2] = 2 THEN Cell(<<CellOf(65, 1), AtomOf(64, 3)>>)
    ELSE Cell(<<Cell(<<Cell(<<AtomOf(256, 0)>>)>>), Atom(<<9>>)>>)

RECURSIVE LDEq(_, _)
\* #[derive(PartialEq)] on LightData
LDEq(x, y) ==
    /\ x.kind = y.kind
    /\ Len(x.xs) = Len(y.xs)
    /\ IF x.kind = "Atom" THEN x.xs = y.xs
       ELSE \A i \in 1..Len(x.xs) : LDEq(x.xs[i], y.xs[i])

LDInit ==
    /\ MFIdle
    /\ RegIdle
    /\ PvIdle
    /\ VfIdle
    /\ SzIdle
    /\ SynIdle
    /\ FnIdle
    /\ \E name \in LDInputNames : ld_x = LDInput(name)
    /\ ld_bytes = None
    /\ ld_res = None
    /\ ld_pc = "start"

\* let ser = x.ser();
LDSer ==
    /\ ld_pc = "start"
    /\ ld_bytes' = Some(ser(ld_x))
    /\ ld_pc' = "serialized"
    /\ UNCHANGED <<ld_x, ld_res>>
    /\ UNCHANGED <<mfVars, regVars, pvVars, fnVars, synVars, szVars, vfVars>>

\* let de = LightData::de(&ser); an overflowing length fold panics in a build
\* with overflow checks (debug) and wraps in one without (release)
LDDe ==
    /\ ld_pc = "serialized"
    /\ \E overflow_checks \in BOOLEAN :
         IF overflow_checks /\ de_overflows(ld_bytes.val)
         THEN /\ ld_pc' = "panicked"
              /\ UNCHANGED ld_res
         ELSE /\ ld_res' = de(ld_bytes.val)
              /\ ld_pc' = "done"
    /\ UNCHANGED <<ld_x, ld_bytes>>
    /\ UNCHANGED <<mfVars, regVars, pvVars, fnVars, synVars, szVars, vfVars>>

LDNext == LDSer \/ LDDe

SpecLD == LDInit /\ [][LDNext]_vars

\* C5: de(x.ser()) = Ok(x) for every LightData value x, whatever the length
\* of its atoms and cells.
C5_RoundTrip == ld_pc = "done" => (ld_res.ok /\ LDEq(ld_res.val, ld_x))

(***************************************************************************)
(* The public-parameter registry: Registry::get_coprocessor_or_update_with *)
(* and Registry::get_from_file_cache_or_update_with, called by threads     *)
(* that share CACHE_REG.                                                   *)
(***************************************************************************)
Threads == {"t1", "t2"}

\* A Lang<F, C> is a coprocessor type C and the key of the coprocessors
\* registered in it; two langs of one type may have different keys.
Langs ==
    { [ctype |-> "C1", key |-> "k1"],
      [ctype |-> "C1", key |-> "k2"],
      [ctype |-> "C2", key |-> "k3"] }

RCs == {1, 2}

\* lang.key()
LangKey(lang) == lang.key

\* lines 58-61: format!("public-params-rc-{rc}-coproc-{lang_key}{quick_suffix}")
FileName(rc, lang_key, abomonated) ==
    <<"public-params-rc", rc, "coproc", lang_key, IF abomonated THEN "-abomonated" ELSE "">>

\* line 124: the key of the per-type table
MemKey(rc, abomonated) == <<rc, abomonated>>

\* registry.entry::<PublicParamMemCache<F, C>>(): the table is chosen by the
\* coprocessor type of the lang
TypeOf(lang) == lang.ctype

\* The parameters default(lang) generates for reduction count rc.
Params(rc, lang) == [rc |-> rc, key |-> LangKey(lang)]

\* Arc<PublicParams>: an allocation and its content; clones share the id.
Arc(id, pp) == [id |-> id, pp |-> pp]

MapPut(m, k, v) == [x \in (DOMAIN m) \cup {k} |-> IF x = k THEN v ELSE m[x]]

\* mutant: the vacant entry is left vacant
RegInsert_dropped(table, k, val) == table

\* line 128: v.insert(val)
RegInsert(table, k, val) == MapPut(table, k, val)

\* The files an earlier run may have left in the disk cache.  A file holds
\* the parameters that set / set_abomonated wrote under its name, whole: the
\* decode of line 68 succeeds and leaves nothing over (line 69).
OldFiles == {FileName(1, "k1", FALSE), FileName(1, "k1", TRUE)}

FileContent(name) == [rc |-> name[2], key |-> name[4]]

NoCall == [status |-> "none"]

\* the entry of the registry a call is about
EntryOf(c) == <<TypeOf(c.lang), c.rc, c.abomonated>>

NewCall(rc, abomonated, lang, prior) ==
    [ status |-> "running",      \* "running", then "ok" or "err"
      rc |-> rc, abomonated |-> abomonated, lang |-> lang,
      prior |-> prior,           \* the handle an earlier call returned for this entry
      mem_miss |-> FALSE,        \* the in-memory entry was vacant
      disk_read |-> FALSE,       \* the disk cache was consulted
      disk_miss |-> FALSE,       \* the disk cache gave nothing
      gen_ran |-> FALSE,         \* default(lang) was invoked
      io_failed |-> FALSE,       \* a disk operation failed
      wrote |-> None,            \* the file name written
      val |-> None,              \* the local `val` / `pp`
      ret |-> None ]             \* the handle returned

RegInit ==
    /\ MFIdle
    /\ LDIdle
    /\ PvIdle
    /\ VfIdle
    /\ SzIdle
    /\ SynIdle
    /\ FnIdle
    /\ pc = [t \in Threads |-> "idle"]
    /\ lock = NoThread
    /\ reg = EmptyMap
    /\ \E S \in {{}, OldFiles} : disk = [f \in S |-> FileContent(f)]
    /\ call = [t \in Threads |-> NoCall]
    /\ nextArc = 0
    /\ ncalls = 0
    /\ succeeded = EmptyMap
    /\ overlap = [t \in Threads |-> {}]

\* a thread calls get_coprocessor_or_update_with(rc, abomonated, default, lang)
Call(t) ==
    /\ pc[t] = "idle"
    /\ ncalls < MaxCalls
    /\ \E rc \in RCs, abomonated \in BOOLEAN, lang \in Langs :
         LET e == <<TypeOf(lang), rc, abomonated>>
             prior == IF e \in DOMAIN succeeded THEN Some(succeeded[e]) ELSE None
             others == {u \in Threads \ {t} : pc[u] # "idle" /\ EntryOf(call[u]) = e}
         IN  /\ call' = [call EXCEPT ![t] = NewCall(rc, abomonated, lang, prior)]
             /\ overlap' = [u \in Threads |->
                              IF u = t THEN others
                              ELSE IF u \in others THEN overlap[u] \cup {t}
                              ELSE overlap[u] \ {t}]
    /\ pc' = [pc EXCEPT ![t] = "lock"]
    /\ ncalls' = ncalls + 1
    /\ UNCHANGED <<lock, reg, disk, nextArc, succeeded>>
    /\ UNCHANGED <<mfVars, ldVars, pvVars, fnVars, synVars, szVars, vfVars>>

\* line 119: self.registry.lock().unwrap()
Acquire(t) ==
    /\ pc[t] = "lock"
    /\ lock = NoThread
    /\ lock' = t
    /\ pc' = [pc EXCEPT ![t] = "lookup"]
    /\ UNCHANGED <<reg, disk, call, nextArc, ncalls, succeeded, overlap>>
    /\ UNCHANGED <<mfVars, ldVars, pvVars, fnVars, synVars, szVars, vfVars>>

\* the function returns Ok(arc): the guard is dropped
ReturnOk(t, arc) ==
    /\ call' = [call EXCEPT ![t].status = "ok", ![t].ret = Some(arc)]
    /\ succeeded' = IF EntryOf(call[t]) \in DOMAIN succeeded THEN succeeded
                    ELSE MapPut(succeeded, EntryOf(call[t]), arc)
    /\ lock' = NoThread
    /\ pc' = [pc EXCEPT ![t] = "idle"]

\* the per-type table after entry.or_insert_with(HashMap::new)
TableOf(r, ctype) == IF ctype \in DOMAIN r THEN r[ctype] ELSE EmptyMap

\* lines 121-125: the entry is occupied, return a clone of the handle
LookupOccupied(t) ==
    /\ pc[t] = "lookup"
    /\ LET c == call[t]
           table == TableOf(reg, TypeOf(c.lang))
           k == MemKey(c.rc, c.abomonated)
       IN  /\ k \in DOMAIN table
           /\ reg' = MapPut(reg, TypeOf(c.lang), table)
           /\ ReturnOk(t, table[k])
    /\ UNCHANGED <<disk, nextArc, ncalls, overlap>>
    /\ UNCHANGED <<mfVars, ldVars, pvVars, fnVars, synVars, szVars, vfVars>>

\* lines 121-127: the entry is vacant, go to the file cache
LookupVacant(t) ==
    /\ pc[t] = "lookup"
    /\ LET c == call[t]
           table == TableOf(reg, TypeOf(c.lang))
           k == MemKey(c.rc, c.abomonated)
       IN  /\ k \notin DOMAIN table
           /\ reg' = MapPut(reg, TypeOf(c.lang), table)
    /\ call' = [call EXCEPT ![t].mem_miss = TRUE]
    /\ pc' = [pc EXCEPT ![t] = "file"]
    /\ UNCHANGED <<lock, disk, nextArc, ncalls, succeeded, overlap>>
    /\ UNCHANGED <<mfVars, ldVars, pvVars, fnVars, synVars, szVars, vfVars>>

\* lines 64-70 and 85-87: the file is read; Arc::new of its content
DiskHit(t) ==
    /\ pc[t] = "file"
    /\ LET c == call[t]
           key == FileName(c.rc, LangKey(c.lang), c.abomonated)
       IN  /\ key \in DOMAIN disk
           /\ call' = [call EXCEPT ![t].disk_read = TRUE,
                                   ![t].val = Some(Arc(nextArc, disk[key]))]
    /\ nextArc' = nextArc + 1
    /\ pc' = [pc EXCEPT ![t] = "insert"]
    /\ UNCHANGED <<lock, reg, disk, ncalls, succeeded, overlap>>
    /\ UNCHANGED <<mfVars, ldVars, pvVars, fnVars, synVars, szVars, vfVars>>

\* lines 72-73 and 88: the file is not there, or reading it fails
DiskMiss(t) ==
    /\ pc[t] = "file"
    /\ LET c == call[t]
           key == FileName(c.rc, LangKey(c.lang), c.abomonated)
       IN  call' = [call EXCEPT ![t].disk_read = TRUE,
                                ![t].disk_miss = TRUE,
                                ![t].io_failed = (key \in DOMAIN disk)]
    /\ pc' = [pc EXCEPT ![t] = "gen"]
    /\ UNCHANGED <<lock, reg, disk, nextArc, ncalls, succeeded, overlap>>
    /\ UNCHANGED <<mfVars, ldVars, pvVars, fnVars, synVars, szVars, vfVars>>

\* lines 74 and 89: let pp = default(lang)
Generate(t) ==
    /\ pc[t] = "gen"
    /\ LET c == call[t] IN
         call' = [call EXCEPT ![t].gen_ran = TRUE,
                              ![t].val = Some(Arc(nextArc, Params(c.rc, c.lang)))]
    /\ nextArc' = nextArc + 1
    /\ pc' = [pc EXCEPT ![t] = "write"]
    /\ UNCHANGED <<lock, reg, disk, ncalls, succeeded, overlap>>
    /\ UNCHANGED <<mfVars, ldVars, pvVars, fnVars, synVars, szVars, vfVars>>

\* lines 76-80 and 90-94: the write succeeds, Ok(pp)
DiskWriteOk(t) ==
    /\ pc[t] = "write"
    /\ LET c == call[t]
           key == FileName(c.rc, LangKey(c.lang), c.abomonated)
       IN  /\ disk' = MapPut(disk, key, c.val.val.pp)
           /\ call' = [call EXCEPT ![t].wrote = Some(key)]
    /\ pc' = [pc EXCEPT ![t] = "insert"]
    /\ UNCHANGED <<lock, reg, nextArc, ncalls, succeeded, overlap>>
    /\ UNCHANGED <<mfVars, ldVars, pvVars, fnVars, synVars, szVars, vfVars>>

\* mutant: the generated parameters are inserted before the error is returned
DiskWriteErr_inserting(t) ==
    /\ pc[t] = "write"
    /\ call' = [call EXCEPT ![t].io_failed = TRUE, ![t].status = "err"]
    /\ LET c == call[t]
           ctype == TypeOf(c.lang)
       IN  reg' = [reg EXCEPT ![ctype] = RegInsert(@, MemKey(c.rc, c.abomonated), c.val.val)]
    /\ lock' = NoThread
    /\ pc' = [pc EXCEPT ![t] = "idle"]
    /\ UNCHANGED <<disk, nextArc, ncalls, succeeded, overlap>>
    /\ UNCHANGED <<mfVars, ldVars, pvVars, fnVars, synVars, szVars, vfVars>>

\* lines 79 and 93, then line 127: the write fails, `?` returns
\* Err(Error::CacheError) from both functions and the guard is dropped
DiskWriteErr(t) ==
    /\ pc[t] = "write"
    /\ call' = [call EXCEPT ![t].io_failed = TRUE, ![t].status = "err"]
    /\ lock' = NoThread
    /\ pc' = [pc EXCEPT ![t] = "idle"]
    /\ UNCHANGED <<reg, disk, nextArc, ncalls, succeeded, overlap>>
    /\ UNCHANGED <<mfVars, ldVars, pvVars, fnVars, synVars, szVars, vfVars>>

\* lines 128-131: Ok(v.insert(val)).cloned()
Insert(t) ==
    /\ pc[t] = "insert"
    /\ LET c == call[t]
           ctype == TypeOf(c.lang)
       IN  /\ reg' = [reg EXCEPT ![ctype] = RegInsert(@, MemKey(c.rc, c.abomonated), c.val.val)]
           /\ ReturnOk(t, c.val.val)
    /\ UNCHANGED <<disk, nextArc, ncalls, overlap>>
    /\ UNCHANGED <<mfVars, ldVars, pvVars, fnVars, synVars, szVars, vfVars>>

RegNext ==
    \E t \in Threads :
        \/ Call(t)
        \/ Acquire(t)
        \/ LookupOccupied(t)
        \/ LookupVacant(t)
        \/ DiskHit(t)
        \/ DiskMiss(t)
        \/ Generate(t)
        \/ DiskWriteOk(t)
        \/ DiskWriteErr(t)
        \/ Insert(t)

SpecReg == RegInit /\ [][RegNext]_vars

(***************************************************************************)
(* Properties of the registry.                                             *)
(***************************************************************************)
Finished(t) == pc[t] = "idle" /\ call[t].status # "none"

\* C6: parameters are resolved from the in-memory registry, then from the
\* disk cache file public-params-rc-<rc>-coproc-<lang_key>[-abomonated], then
\* by the generator; the disk is consulted only on an in-memory miss, the
\* generator runs only on a disk miss, and whenever the generator has run the
\* parameters are in that file and in the registry under (rc, abomonated).
C6_ResolutionOrder ==
    \A t \in Threads :
        call[t].status # "none" =>
            LET c == call[t]
                key == FileName(c.rc, LangKey(c.lang), c.abomonated)
                table == TableOf(reg, TypeOf(c.lang))
            IN  /\ c.disk_read => c.mem_miss
                /\ c.gen_ran => (c.disk_read /\ c.disk_miss)
                /\ (Finished(t) /\ c.gen_ran) =>
                      /\ c.wrote = Some(key)
                      /\ key \in DOMAIN disk
                      /\ disk[key] = c.val.val.pp
                      /\ MemKey(c.rc, c.abomonated) \in DOMAIN table
                      /\ table[MemKey(c.rc, c.abomonated)] = c.val.val

\* C7: once a call has succeeded for a coprocessor type and (rc, abomonated),
\* every later call for the same type and key returns the same handle and
\* neither reads the disk cache nor runs its generator.
C7_Memoized ==
    \A t \in Threads :
        (call[t].status # "none" /\ call[t].prior.some) =>
            /\ ~call[t].disk_read
            /\ ~call[t].gen_ran
            /\ pc[t] \in {"idle", "lock", "lookup"}
            /\ Finished(t) => (call[t].status = "ok" /\ call[t].ret = call[t].prior)

C7_Witness ==
    \E t \in Threads :
        /\ Finished(t)
        /\ call[t].prior.some
        /\ call[t].ret = call[t].prior
        /\ \E e \in DOMAIN succeeded :
              /\ e # EntryOf(call[t])
              /\ e[1] = TypeOf(call[t].lang)
              /\ succeeded[e].id > call[t].prior.val.id

\* C8: of the threads that call concurrently for the same coprocessor type
\* and key, at most one runs the disk lookup and the generator and all return
\* the same handle; the lock is held from the lookup until the insertion.
C8_SingleFlight ==
    /\ \A t \in Threads :
          pc[t] \in {"lookup", "file", "gen", "write", "insert"} => lock = t
    /\ \A t \in Threads : \A u \in overlap[t] :
          (Finished(t) /\ Finished(u)) =>
              /\ ~(call[t].disk_read /\ call[u].disk_read)
              /\ ~(call[t].gen_ran /\ call[u].gen_ran)
              /\ call[t].status = "ok"
              /\ call[u].status = "ok"
              /\ call[t].ret = call[u].ret

\* C9: a successful call made with a lang of key k and reduction count rc
\* returns parameters generated for, or loaded from the file of, rc and k.
C9_IndexedByLangKey ==
    \A t \in Threads :
        (Finished(t) /\ call[t].status = "ok") =>
            call[t].ret.val.pp = Params(call[t].rc, call[t].lang)

\* C10: when a disk operation of the call fails (reading the cached file or
\* writing the generated parameters back), the call still returns the
\* generated parameters.
C10_IoFailureFallsBack ==
    \A t \in Threads :
        (Finished(t) /\ call[t].io_failed) =>
            /\ call[t].status = "ok"
            /\ call[t].gen_ran
            /\ call[t].ret = call[t].val

(***************************************************************************)
(* Groth16Prover::outer_prove (src/proof/groth16.rs).  The evaluation      *)
(* trace `frames` is what get_evaluation_frames returned; from_frames      *)
(* packs it (the actions above) and the body continues from there.  A      *)
(* field element is a pair <<"tag", t>> or <<"hash", p>>; a Groth16 proof  *)
(* is the record of the statement it proves.                               *)
(***************************************************************************)
\* the tag of the expression, environment or continuation behind a pointer
TagOf(p) ==
    CASE p \in ExprPtrs -> "Sym"
      [] p \in EnvPtrs -> "Nil"
      [] OTHER -> p

\* Store::hash_ptr: the ZPtr (tag, hash) of a pointer
hash_ptr(p) == [tag |-> <<"tag", TagOf(p)>>, hash |-> <<"hash", p>>]

\* the (tag, hash) pairs of the pointers of one IO, in order
IOFields(io) ==
    [ i \in 1..(2 * Len(io)) |->
        IF i % 2 = 1 THEN hash_ptr(io[(i + 1) \div 2]).tag
                     ELSE hash_ptr(io[i \div 2]).hash ]

\* mutant: the output components come first
public_inputs_swapped(m) == IOFields(m.output.val) \o IOFields(m.input.val)

\* MultiFrame::public_inputs
public_inputs(m) == IOFields(m.input.val) \o IOFields(m.output.val)

\* Func::input_params of the step function: expr, env, cont
input_params == <<"expr", "env", "cont">>

\* MultiFrame::public_input_size
public_input_size == 4 * Len(input_params)

\* mutant: the dummy takes the frame's input on both sides
make_dummy_identity(c, circuit_frame) ==
    IF circuit_frame.some
    THEN [ store |-> TRUE,
           input |-> Some(circuit_frame.val.input),
           output |-> Some(circuit_frame.val.input),
           frames |-> Some([i \in 1..c |-> circuit_frame.val]),
           reduction_count |-> c ]
    ELSE [ store |-> TRUE, input |-> None, output |-> None,
           frames |-> None, reduction_count |-> c ]

\* MultiFrame::make_dummy
make_dummy(c, circuit_frame) ==
    IF circuit_frame.some
    THEN [ store |-> TRUE,
           input |-> Some(circuit_frame.val.input),
           output |-> Some(circuit_frame.val.output),
           frames |-> Some([i \in 1..c |-> circuit_frame.val]),
           reduction_count |-> c ]
    ELSE [ store |-> TRUE, input |-> None, output |-> None,
           frames |-> None, reduction_count |-> c ]

RECURSIVE count_ones(_)
\* usize::count_ones
count_ones(n) == IF n = 0 THEN 0 ELSE (n % 2) + count_ones(n \div 2)

\* mutant: a single proof is not padded
NeedsDummy_pow2only(n) == count_ones(n) # 1

\* lines 171 and 185: the condition under which a dummy proof is pushed
NeedsDummy(n) == count_ones(n) # 1 \/ n < 2

\* Groth16Prover::prove: the proof of one multi-frame
ProofOf(m) == [statement |-> public_inputs(m)]

\* line 162: last_multiframe
last_multiframe == Last(multi_frames)

\* line 174: last_multiframe.frames.and_then(|x| x.last().cloned())
LastCircuitFrame ==
    IF last_multiframe.frames.some /\ last_multiframe.frames.val # <<>>
    THEN Some(Last(last_multiframe.frames.val))
    ELSE None

\* lines 152-162: the vectors are created; last().unwrap() panics when
\* from_frames returned no multi-frame
OuterProveStart ==
    /\ mf_pc = "done"
    /\ pv_pc = "idle"
    /\ IF multi_frames = <<>>
       THEN pv_pc' = "panicked"
       ELSE pv_pc' = "loop"
    /\ UNCHANGED <<proofs, statements, dummy, pv_ret>>
    /\ UNCHANGED <<mfVars, ldVars, regVars, fnVars, synVars, szVars, vfVars>>

\* lines 163-169: one iteration of `for multiframe in multiframes`; prove
\* returns a Result, which is unwrapped
ProveMultiframe ==
    /\ pv_pc = "loop"
    /\ Len(statements) < Len(multi_frames)
    /\ LET multiframe == multi_frames[Len(statements) + 1] IN
       /\ statements' = Append(statements, public_inputs(multiframe))
       /\ \E ok \in BOOLEAN :
            IF ok
            THEN /\ proofs' = Append(proofs, ProofOf(multiframe))
                 /\ UNCHANGED pv_pc
            ELSE /\ pv_pc' = "panicked"
                 /\ UNCHANGED proofs
    /\ UNCHANGED <<dummy, pv_ret>>
    /\ UNCHANGED <<mfVars, ldVars, regVars, fnVars, synVars, szVars, vfVars>>

\* lines 171-184: after the loop, the dummy multi-frame is made and proved
\* when the number of proofs calls for padding
MakeDummy ==
    /\ pv_pc = "loop"
    /\ Len(statements) = Len(multi_frames)
    /\ IF NeedsDummy(Len(proofs))
       THEN /\ dummy' = Some(make_dummy(count, LastCircuitFrame))
            /\ \E ok \in BOOLEAN :
                 pv_pc' = IF ok THEN "pad" ELSE "panicked"
       ELSE /\ pv_pc' = "assert"
            /\ UNCHANGED dummy
    /\ UNCHANGED <<proofs, statements, pv_ret>>
    /\ UNCHANGED <<mfVars, ldVars, regVars, fnVars, synVars, szVars, vfVars>>

\* lines 185-189: one iteration of the padding loop, or its exit
PadStep ==
    /\ pv_pc = "pad"
    /\ IF NeedsDummy(Len(proofs))
       THEN /\ proofs' = Append(proofs, ProofOf(dummy.val))
            /\ statements' = Append(statements, public_inputs(dummy.val))
            /\ UNCHANGED pv_pc
       ELSE /\ pv_pc' = "assert"
            /\ UNCHANGED <<proofs, statements>>
    /\ UNCHANGED <<dummy, pv_ret>>
    /\ UNCHANGED <<mfVars, ldVars, regVars, fnVars, synVars, szVars, vfVars>>

\* line 203: let public_inputs = frames[0].input
outer_public_inputs == frames[1].input

\* mutant: the output of the first frame
outer_public_outputs_first == frames[1].output

\* line 204: let public_outputs = frames[frames.len() - 1].output
outer_public_outputs == frames[Len(frames)].output

\* lines 191-214: the assertion, the aggregation (whose error is returned
\* with `?`) and the returned triple
AggregateAndReturn ==
    /\ pv_pc = "assert"
    /\ IF count_ones(Len(statements)) # 1
       THEN pv_pc' = "panicked" /\ UNCHANGED pv_ret
       ELSE \E ok \in BOOLEAN :
              /\ pv_pc' = "returned"
              /\ pv_ret' =
                   IF ok
                   THEN Ok([ proof |-> [ proof |-> [statements |-> statements,
                                                    proofs |-> proofs],
                                         proof_count |-> Len(proofs),
                                         reduction_count |-> count ],
                             public_inputs |-> outer_public_inputs,
                             public_outputs |-> outer_public_outputs ])
                   ELSE Err
    /\ UNCHANGED <<proofs, statements, dummy>>
    /\ UNCHANGED <<mfVars, ldVars, regVars, fnVars, synVars, szVars, vfVars>>

PvNext ==
    \/ FromFramesChunk
    \/ FromFramesReturn
    \/ OuterProveStart
    \/ ProveMultiframe
    \/ MakeDummy
    \/ PadStep
    \/ AggregateAndReturn

SpecProve == MFInit /\ [][PvNext]_vars

(***************************************************************************)
(* Properties of outer_prove.                                              *)
(***************************************************************************)
RECURSIVE IsPow2(_)
IsPow2(n) == n = 1 \/ (n > 1 /\ n % 2 = 0 /\ IsPow2(n \div 2))

\* the smallest power of two that is >= max(2, k)
PadTarget(k) ==
    CHOOSE p \in 2..(2 * k + 2) :
        /\ IsPow2(p)
        /\ p >= k
        /\ \A q \in 2..(p - 1) : ~(IsPow2(q) /\ q >= k)

\* C11: for k >= 1 real multi-frames the padding loop stops with
\* proofs.len() == statements.len() == the smallest power of two that is
\* >= max(2, k): while it runs the length stays below that number, which
\* each iteration approaches by one; the assertion on statements.len()
\* holds and the returned proof_count is that number.
C11_PaddingToPowerOfTwo ==
    LET target == PadTarget(Len(multi_frames)) IN
    /\ pv_pc = "pad" =>
          /\ Len(proofs) = Len(statements)
          /\ Len(proofs) <= target
          /\ NeedsDummy(Len(proofs)) <=> Len(proofs) < target
    /\ pv_pc \in {"assert", "returned"} =>
          /\ Len(proofs) = target
          /\ Len(statements) = target
          /\ count_ones(Len(statements)) = 1
    /\ (pv_pc = "returned" /\ pv_ret.ok) =>
          pv_ret.val.proof.proof_count = target

\* three real multi-frames were padded to four proofs and returned
C11_Witness ==
    /\ pv_pc = "returned"
    /\ pv_ret.ok
    /\ Len(multi_frames) = 3
    /\ dummy.some
    /\ pv_ret.val.proof.proof_count = 4

\* C12: the dummy multi-frame made from the last real frame consists of
\* reduction-count copies of that frame and has input == output.
C12_DummyInputEqualsOutput ==
    dummy.some =>
        /\ dummy.val.frames.some
        /\ Len(dummy.val.frames.val) = count
        /\ \A i \in 1..count : dummy.val.frames.val[i] = Last(frames)
        /\ dummy.val.input = dummy.val.output

\* C13: the public input returned by outer_prove is the first multi-frame's
\* outer input and the public output is the last real multi-frame's outer
\* output.
C13_PublicIO ==
    (pv_pc = "returned" /\ pv_ret.ok) =>
        /\ pv_ret.val.public_inputs = multi_frames[1].input.val
        /\ pv_ret.val.public_outputs = Last(multi_frames).output.val

\* a returned proof of a trace that took both frame padding and dummy
\* multi-frames, and whose first frame is not its last
C13_Witness ==
    /\ pv_pc = "returned"
    /\ pv_ret.ok
    /\ Len(frames) % count # 0
    /\ Len(frames) > 1
    /\ dummy.some
    /\ Len(proofs) > Len(multi_frames)
    /\ frames[1].output # Last(frames).output

\* C14: outer_prove never panics: an evaluation that yields no frames and a
\* failure to prove a multi-frame or the dummy multi-frame are returned as
\* an error value.
C14_NeverPanics == pv_pc # "panicked"

\* the trace stopped at the step limit: its last frame's output
\* continuation is not Terminal
Incomplete == frames # <<>> /\ Last(frames).output[3] # "Terminal"

\* C15: when the trace is incomplete, outer_prove refuses to prove: it
\* returns an error and no proof.
C15_IncompleteTraceRefused ==
    (Incomplete /\ pv_pc = "returned") => ~pv_ret.ok

(***************************************************************************)
(* Properties of the length field and the tag byte of the codec.           *)
(***************************************************************************)
\* C16: for an atom or cell of length len > 64 the byte_count(len) bytes
\* after the tag hold len least significant byte first, and de reads the
\* same bytes back as len.
C16_LengthFieldLittleEndian ==
    (ld_pc \in {"serialized", "done"} /\ Len(ld_x.xs) > 64) =>
        LET len == Len(ld_x.xs)
            b == byte_count(len)
            bytes == ld_bytes.val
            size == de_size(bytes, 2, bytes[1])
        IN  /\ \A j \in 1..b : bytes[1 + j] = (len \div Pow256(j - 1)) % 256
            /\ size.ok
            /\ size.pos = 2 + b
            /\ size.val = len

\* C17: the tag byte of x.ser() has its high bit clear iff x is an Atom; for
\* lengths 1..63 the small flag is set and the low 6 bits are the length; for
\* length 64 the small flag is set and the low 6 bits are zero; for length 0
\* and lengths above 64 the small flag is clear and the low 6 bits are 0 or
\* byte_count(len); de gives back a value of the same kind and length.
C17_TagLayout ==
    (ld_pc \in {"serialized", "done"}) =>
        LET len == Len(ld_x.xs)
            t == ld_bytes.val[1]
            high == (t \div 128) % 2
            small == (t \div 64) % 2
            low6 == t % 64
        IN  /\ high = 0 <=> ld_x.kind = "Atom"
            /\ high = 1 <=> ld_x.kind = "Cell"
            /\ len \in 1..63 => (small = 1 /\ low6 = len)
            /\ len = 64 => (small = 1 /\ low6 = 0)
            /\ len = 0 => (small = 0 /\ low6 = 0)
            /\ len > 64 => (small = 0 /\ low6 = byte_count(len))
            /\ ld_pc = "done" =>
                  /\ ld_res.ok
                  /\ ld_res.val.kind = ld_x.kind
                  /\ Len(ld_res.val.xs) = len

(***************************************************************************)
(* The arithmetic helpers, each applied once to an argument: byte_count    *)
(* (src/light_data/mod.rs) and Prover::frame_padding_count                 *)
(* (src/proof/mod.rs).                                                     *)
(***************************************************************************)
\* Prover::frame_padding_count; rc is self.reduction_count()
frame_padding_count(total_frames, rc) == total_frames % rc

\* arguments on both sides of every power of 256 below 2^31
FnEdges == {255, 256, 257, 65535, 65536, 16777215, 16777216, 2147483647}

FnInit ==
    /\ MFIdle
    /\ LDIdle
    /\ RegIdle
    /\ PvIdle
    /\ VfIdle
    /\ SzIdle
    /\ SynIdle
    /\ fn_n \in (0..MaxFnN) \cup FnEdges
    /\ fn_rc \in 1..MaxCount
    /\ fn_pc = "start"
    /\ fn_res = None

\* LightData::byte_count(n)
ApplyByteCount ==
    /\ fn_pc = "start"
    /\ fn_res' = Some(byte_count(fn_n))
    /\ fn_pc' = "byte_count"
    /\ UNCHANGED <<fn_n, fn_rc>>
    /\ UNCHANGED <<mfVars, ldVars, regVars, pvVars, synVars, szVars, vfVars>>

\* prover.frame_padding_count(n) for a prover of reduction count rc
ApplyFramePaddingCount ==
    /\ fn_pc = "start"
    /\ fn_res' = Some(frame_padding_count(fn_n, fn_rc))
    /\ fn_pc' = "frame_padding_count"
    /\ UNCHANGED <<fn_n, fn_rc>>
    /\ UNCHANGED <<mfVars, ldVars, regVars, pvVars, synVars, szVars, vfVars>>

FnNext == ApplyByteCount \/ ApplyFramePaddingCount

SpecFn == FnInit /\ [][FnNext]_vars

\* n < 256^b, for b >= 1
FitsIn(n, b) == n \div Pow256(b - 1) < 256

\* C18: byte_count(0) = 1 and, for n >= 1, byte_count(n) is the least
\* number of bytes b with n < 256^b.
C18_ByteCount ==
    fn_pc = "byte_count" =>
        LET b == fn_res.val IN
        /\ fn_n = 0 => b = 1
        /\ fn_n >= 1 =>
              /\ b >= 1
              /\ FitsIn(fn_n, b)
              /\ b > 1 => ~FitsIn(fn_n, b - 1)

\* byte_count was applied to 65536, the least number that needs three bytes
C18_Witness ==
    /\ fn_pc = "byte_count"
    /\ fn_n = 65536
    /\ fn_res = Some(3)

\* C19: the public-input vector of every multi-frame that has a store, an
\* input and an output has public_input_size() = 4 * 3 = 12 elements: the
\* tag then the hash of each input component in order, followed by the tag
\* then the hash of each output component in order.  Statement j is that of
\* the j-th real multi-frame, or of the dummy multi-frame past the last one.
C19_PublicInputsLayout ==
    \A j \in 1..Len(statements) :
        LET m == IF j <= Len(multi_frames) THEN multi_frames[j] ELSE dummy.val
            s == statements[j]
            n == Len(input_params)
        IN  /\ m.store /\ m.input.some /\ m.output.some
            /\ Len(s) = public_input_size
            /\ Len(s) = 12
            /\ \A i \in 1..n :
                  /\ s[2 * i - 1] = <<"tag", TagOf(m.input.val[i])>>
                  /\ s[2 * i] = <<"hash", m.input.val[i]>>
                  /\ s[2 * n + 2 * i - 1] = <<"tag", TagOf(m.output.val[i])>>
                  /\ s[2 * n + 2 * i] = <<"hash", m.output.val[i]>>

\* the statements of a real multi-frame whose output differs from its input
\* and of a dummy multi-frame have been computed
C19_Witness ==
    /\ pv_pc = "assert"
    /\ Len(statements) > Len(multi_frames)
    /\ multi_frames[1].input # multi_frames[1].output
    /\ statements[1] # statements[Len(statements)]

\* C20: frame_padding_count(total_frames) is the number of frames to add to
\* total_frames to reach a multiple of reduction_count: the least p >= 0
\* such that total_frames + p is such a multiple.
C20_FramePaddingCount ==
    fn_pc = "frame_padding_count" =>
        LET p == fn_res.val IN
        /\ p \in 0..(fn_rc - 1)
        /\ ((fn_n % fn_rc) + p) % fn_rc = 0

(***************************************************************************)
(* Prover::expected_total_iterations (src/proof/mod.rs), applied to the    *)
(* length of a trace that from_frames has packed at the prover's           *)
(* reduction count.                                                        *)
(***************************************************************************)
\* Prover::multiframe_padding_count, the default body; no prover overrides it
multiframe_padding_count(raw_multiframe_count) == 0

\* mutant: a short last chunk is not counted
expected_total_iterations_floor(raw_iterations, rc) ==
    LET full_multiframe_count == raw_iterations \div rc
    IN  full_multiframe_count + multiframe_padding_count(full_multiframe_count)

\* Prover::expected_total_iterations; rc is self.reduction_count()
expected_total_iterations(raw_iterations, rc) ==
    LET cfc == rc
        full_multiframe_count == raw_iterations \div cfc
        unfull_multiframe_frame_count == raw_iterations % cfc
        raw_multiframe_count ==
            full_multiframe_count + (IF unfull_multiframe_frame_count # 0 THEN 1 ELSE 0)
    IN  raw_multiframe_count + multiframe_padding_count(raw_multiframe_count)

\* prover.expected_total_iterations(frames.len()) once from_frames returned
ApplyExpectedTotalIterations ==
    /\ mf_pc = "done"
    /\ fn_pc = "idle"
    /\ fn_n' = Len(frames)
    /\ fn_rc' = count
    /\ fn_res' = Some(expected_total_iterations(Len(frames), count))
    /\ fn_pc' = "expected_total_iterations"
    /\ UNCHANGED <<mfVars, ldVars, regVars, pvVars, synVars, szVars, vfVars>>

IterNext == FromFramesChunk \/ FromFramesReturn \/ ApplyExpectedTotalIterations

SpecIter == MFInit /\ [][IterNext]_vars

\* C21: expected_total_iterations(r) = ceil(r/N) + multiframe_padding_count(
\* ceil(r/N)), and with the default padding of 0 it is the number of
\* multi-frames from_frames made of the r frames.
C21_ExpectedTotalIterations ==
    fn_pc = "expected_total_iterations" =>
        LET k == CeilDiv(fn_n, fn_rc) IN
        /\ fn_res.val = k + multiframe_padding_count(k)
        /\ multiframe_padding_count(k) = 0 => fn_res.val = Len(multi_frames)

\* the function was applied to a trace whose last chunk is short
C21_Witness ==
    /\ fn_pc = "expected_total_iterations"
    /\ fn_n = 4
    /\ fn_rc = 3
    /\ fn_res = Some(2)
    /\ Len(multi_frames) = 2

\* C22: for the Groth16 prover k + multiframe_padding_count(k), and hence
\* expected_total_iterations of the trace, is the proof_count that
\* outer_prove reports for a trace of k real multi-frames.
C22_PaddingCountMatchesProofCount ==
    (pv_pc = "returned" /\ pv_ret.ok) =>
        LET k == Len(multi_frames) IN
        /\ k + multiframe_padding_count(k) = pv_ret.val.proof.proof_count
        /\ expected_total_iterations(Len(frames), count)
              = pv_ret.val.proof.proof_count

(***************************************************************************)
(* Circuit synthesis: Circuit::synthesize and synthesize_frames for        *)
(* MultiFrame (src/lem/multiframe.rs), driven by Prover::outer_synthesize  *)
(* (src/proof/mod.rs) over the multi-frames of from_frames and then by     *)
(* check_cs_deltas (src/proof/groth16.rs).  A constraint system is known   *)
(* by its shape (public inputs, frame gadgets laid out) and by whether the *)
(* outer output constraints are satisfied.  An allocated IO is the         *)
(* sequence of the (tag, hash) values of its pointers, or Unassigned when  *)
(* the wires carry no value.                                               *)
(***************************************************************************)
\* MultiFrame::blank
blank(c) ==
    [ store |-> FALSE, input |-> None, output |-> None,
      frames |-> None, reduction_count |-> c ]

\* Frame::blank
blank_frame == [input |-> <<>>, output |-> <<>>, blank |-> TRUE]

Unassigned == <<>>

\* the values of the wires allocated for the pointers of one IO
AllocIO(io) == [i \in 1..Len(io) |-> hash_ptr(io[i])]

SynOk(v) == [kind |-> "ok", val |-> v]

SynErr == [kind |-> "AssignmentMissing"]

SynPanic == [kind |-> "panic"]

\* Func::synthesize_frame: the wires of the frame's output
synthesize_frame(frame, input) ==
    IF frame.blank THEN Unassigned ELSE AllocIO(frame.output)

RECURSIVE synthesize_frames(_, _, _)
\* MultiFrame::synthesize_frames, the fold from frame i on: the output wires
\* after the last frame, an error when a value is missing, or a panic when
\* an assertion on the incoming wires of a non-blank frame fails
synthesize_frames(input, fs, i) ==
    IF i > Len(fs) THEN SynOk(input)
    ELSE LET frame == fs[i] IN
         IF ~frame.blank /\ input = Unassigned THEN SynErr
         ELSE IF ~frame.blank /\ input # AllocIO(frame.input) THEN SynPanic
         ELSE synthesize_frames(synthesize_frame(frame, input), fs, i + 1)

\* the closure `synth` of Circuit::synthesize
synth(fs, input, output) ==
    LET allocated_input == AllocIO(input)
        allocated_output == AllocIO(output)
        r == synthesize_frames(allocated_input, fs, 1)
    IN  IF r.kind # "ok" THEN r
        ELSE SynOk([ num_inputs |-> 2 * Len(input) + 2 * Len(output),
                     num_frames |-> Len(fs),
                     satisfied |-> r.val = allocated_output ])

\* Circuit::synthesize for MultiFrame
synthesize(m) ==
    IF ~m.input.some \/ ~m.output.some THEN SynErr
    ELSE IF m.store
         THEN IF ~m.frames.some THEN SynPanic
              ELSE synth(m.frames.val, m.input.val, m.output.val)
         ELSE IF m.frames.some THEN SynPanic
              ELSE synth([i \in 1..m.reduction_count |-> blank_frame],
                         m.input.val, m.output.val)

\* ConstraintSystem::delta: what two constraint systems are compared on
ShapeOf(cs) == [num_inputs |-> cs.num_inputs, num_frames |-> cs.num_frames]

\* Prover::outer_synthesize: the next multi-frame is synthesized; the first
\* error ends the iteration
OuterSynthesizeStep ==
    /\ mf_pc = "done"
    /\ syn_pc = "idle"
    /\ Len(css) < Len(multi_frames)
    /\ LET multiframe == multi_frames[Len(css) + 1]
           r == synthesize(multiframe)
       IN  IF r.kind = "ok"
           THEN /\ css' = Append(css, r.val)
                /\ UNCHANGED syn_pc
           ELSE /\ syn_pc' = IF r.kind = "panic" THEN "assert_failed" ELSE "err"
                /\ UNCHANGED css
    /\ UNCHANGED cs_blank
    /\ UNCHANGED <<mfVars, ldVars, regVars, pvVars, fnVars, szVars, vfVars>>

\* Prover::outer_synthesize returns the constraint systems
OuterSynthesizeReturn ==
    /\ mf_pc = "done"
    /\ syn_pc = "idle"
    /\ Len(css) = Len(multi_frames)
    /\ syn_pc' = "synthesized"
    /\ UNCHANGED <<css, cs_blank>>
    /\ UNCHANGED <<mfVars, ldVars, regVars, pvVars, fnVars, szVars, vfVars>>

\* check_cs_deltas: the blank multi-frame is synthesized (the result is
\* unwrapped with expect) and every constraint system is compared with it
check_cs_deltas ==
    /\ syn_pc = "synthesized"
    /\ LET r == synthesize(blank(count)) IN
       /\ cs_blank' = r
       /\ syn_pc' =
            IF r.kind # "ok" THEN "expect_failed"
            ELSE IF \A i \in 1..Len(css) : ShapeOf(css[i]) = ShapeOf(r.val)
                 THEN "checked"
                 ELSE "delta_differs"
    /\ UNCHANGED css
    /\ UNCHANGED <<mfVars, ldVars, regVars, pvVars, fnVars, szVars, vfVars>>

SynNext ==
    \/ FromFramesChunk
    \/ FromFramesReturn
    \/ OuterSynthesizeStep
    \/ OuterSynthesizeReturn
    \/ check_cs_deltas

SpecSynth == MFInit /\ [][SynNext]_vars

\* C23: synthesizing the blank multi-frame of width N succeeds and lays out
\* N blank frames, and the constraint system of every multi-frame of
\* from_frames at that width has the shape of the blank one.
C23_BlankShape ==
    syn_pc \in {"expect_failed", "checked", "delta_differs"} =>
        /\ cs_blank.kind = "ok"
        /\ cs_blank.val.num_frames = count
        /\ \A i \in 1..Len(css) : ShapeOf(css[i]) = ShapeOf(cs_blank.val)

\* C25: in every multi-frame of from_frames, padded ones included, frame
\* i's output is what frame i+1 takes as its input, so the wires that
\* synthesize_frames threads from one frame into the next carry the (tag,
\* hash) of the next frame's recorded input and none of its equality
\* assertions fails.
C25_FramesThreaded ==
    /\ syn_pc # "assert_failed"
    /\ \A j \in 1..Len(css) :
          LET fs == multi_frames[j].frames.val IN
          \A i \in 1..(Len(fs) - 1) :
              AllocIO(fs[i].output) = AllocIO(fs[i + 1].input)

(***************************************************************************)
(* The serde Serializer (src/z_data/serde/ser.rs) against the hand-written *)
(* Encodable::ser (src/light_data/mod.rs) on values of the types built     *)
(* from a leaf type with Option, Vec and pairs.  A type is [t, args]; a    *)
(* value is [k, xs] with k the variant or container and xs its parts.      *)
(***************************************************************************)
TLeaf == [t |-> "Leaf", args |-> <<>>]

TOpt(a) == [t |-> "Option", args |-> <<a>>]

TVec(a) == [t |-> "Vec", args |-> <<a>>]

TPair(a, b) == [t |-> "Pair", args |-> <<a, b>>]

\* the types nested at most once, and their Option, Vec and pair types
SzTypes1 == {TLeaf, TOpt(TLeaf), TVec(TLeaf), TPair(TLeaf, TLeaf)}

SzTypes ==
    SzTypes1 \cup {TOpt(a) : a \in SzTypes1} \cup {TVec(a) : a \in SzTypes1}
             \cup {TPair(a, b) : a \in SzTypes1, b \in SzTypes1}

VLeaf(b) == [k |-> "Leaf", xs |-> <<b>>]

VNone == [k |-> "None", xs |-> <<>>]

VSome(a) == [k |-> "Some", xs |-> <<a>>]

VVec(xs) == [k |-> "Vec", xs |-> xs]

VPair(a, b) == [k |-> "Pair", xs |-> <<a, b>>]

RECURSIVE ValuesOf(_)
\* the values of a type, sequences up to MaxSzLen long
ValuesOf(ty) ==
    CASE ty.t = "Leaf" -> {VLeaf(1), VLeaf(2)}
      [] ty.t = "Option" -> {VNone} \cup {VSome(a) : a \in ValuesOf(ty.args[1])}
      [] ty.t = "Vec" ->
            UNION {{VVec(xs) : xs \in [1..n -> ValuesOf(ty.args[1])]} : n \in 0..MaxSzLen}
      [] ty.t = "Pair" ->
            {VPair(a, b) : a \in ValuesOf(ty.args[1]), b \in ValuesOf(ty.args[2])}

\* Encodable::ser of the leaf type: one atom holding the leaf's byte
Leaf_ser(v) == Atom(v.xs)

RECURSIVE Encodable_ser(_)
\* Encodable::ser for Option<A>, Vec<A> and (A, B)
Encodable_ser(v) ==
    CASE v.k = "Leaf" -> Leaf_ser(v)
      [] v.k = "None" -> Atom(<<>>)
      [] v.k = "Some" -> Cell(<<Encodable_ser(v.xs[1])>>)
      [] v.k = "Vec" -> Cell([i \in 1..Len(v.xs) |-> Encodable_ser(v.xs[i])])
      [] v.k = "Pair" -> Cell(<<Encodable_ser(v.xs[1]), Encodable_ser(v.xs[2])>>)

\* Serializer::serialize_bytes
serialize_bytes(value) == Atom(value)

\* Serializer::serialize_u8
serialize_u8(value) == Atom(<<value>>)

\* Serializer::serialize_none
serialize_none == Atom(<<>>)

\* mutant: the option wrapper is dropped, as for a newtype struct
serialize_some_newtype(z) == z

\* Serializer::serialize_some, z being value.serialize(self)?
serialize_some(z) == Cell(<<z>>)

\* Serializer::serialize_seq and serialize_tuple: an empty SerializeCell
serialize_seq == [cell |-> <<>>]

\* SerializeSeq::serialize_element, z being value.serialize(&Serializer)?
serialize_element(sc, z) == [cell |-> Append(sc.cell, z)]

\* SerializeSeq::end
SerializeCell_end(sc) == Cell(sc.cell)

RECURSIVE serialize(_)
RECURSIVE serialize_elements(_, _, _)
\* the elements of xs from index i on are passed to serialize_element
serialize_elements(sc, xs, i) ==
    IF i > Len(xs) THEN sc
    ELSE serialize_elements(serialize_element(sc, serialize(xs[i])), xs, i + 1)

\* value.serialize(&Serializer): Option calls serialize_none or
\* serialize_some; Vec and pairs open a sequence or tuple, pass their
\* elements in order and end it; the leaf is serialized as its bytes
serialize(v) ==
    CASE v.k = "Leaf" -> serialize_bytes(v.xs)
      [] v.k = "None" -> serialize_none
      [] v.k = "Some" -> serialize_some(serialize(v.xs[1]))
      [] OTHER -> SerializeCell_end(serialize_elements(serialize_seq, v.xs, 1))

\* to_z_data
to_z_data(value) == Ok(serialize(value))

\* the StructSerializer is not in use
SsIdle ==
    /\ ss = None
    /\ ss_given = 0
    /\ ss_out = None

SzInit ==
    /\ MFIdle
    /\ LDIdle
    /\ RegIdle
    /\ PvIdle
    /\ VfIdle
    /\ FnIdle
    /\ SynIdle
    /\ SsIdle
    /\ \E ty \in SzTypes : sz_x \in ValuesOf(ty)
    /\ sz_enc = None
    /\ sz_zd = None
    /\ sz_pc = "start"

\* ze.ser()
SzEncodableSer ==
    /\ sz_pc = "start"
    /\ sz_enc' = Some(Encodable_ser(sz_x))
    /\ sz_pc' = "encoded"
    /\ UNCHANGED <<sz_x, sz_zd, ss, ss_given, ss_out>>
    /\ UNCHANGED <<mfVars, ldVars, regVars, pvVars, fnVars, synVars, vfVars>>

\* to_z_data(ze)
SzToZData ==
    /\ sz_pc = "encoded"
    /\ sz_zd' = to_z_data(sz_x)
    /\ sz_pc' = "done"
    /\ UNCHANGED <<sz_x, sz_enc, ss, ss_given, ss_out>>
    /\ UNCHANGED <<mfVars, ldVars, regVars, pvVars, fnVars, synVars, vfVars>>

SzNext == SzEncodableSer \/ SzToZData

SpecSerde == SzInit /\ [][SzNext]_vars

\* C24: to_z_data gives the Atom/Cell tree of Encodable::ser: None is
\* Atom([]), Some(a) is Cell([ser(a)]), and a sequence or pair is the Cell
\* of its serialized elements in order.
C24_SerdeMatchesEncodable ==
    sz_pc = "done" =>
        /\ sz_zd.ok
        /\ LDEq(sz_zd.val, sz_enc.val)
        /\ sz_x.k = "None" => LDEq(sz_zd.val, Atom(<<>>))
        /\ sz_x.k = "Some" =>
              /\ sz_zd.val.kind = "Cell"
              /\ Len(sz_zd.val.xs) = 1
              /\ LDEq(sz_zd.val.xs[1], Encodable_ser(sz_x.xs[1]))
        /\ sz_x.k \in {"Vec", "Pair"} =>
              /\ sz_zd.val.kind = "Cell"
              /\ Len(sz_zd.val.xs) = Len(sz_x.xs)
              /\ \A i \in 1..Len(sz_x.xs) :
                    LDEq(sz_zd.val.xs[i], Encodable_ser(sz_x.xs[i]))

\* a sequence of two different options went through both serializers
C24_Witness ==
    /\ sz_pc = "done"
    /\ sz_x.k = "Vec"
    /\ Len(sz_x.xs) = 2
    /\ sz_x.xs[1].k = "Some"
    /\ sz_x.xs[2].k = "None"

(***************************************************************************)
(* StructSerializer used for a struct variant: serialize_struct_variant,   *)
(* then serialize_field and skip_field calls in any order, then end.       *)
(***************************************************************************)
\* the variant indices passed by the caller
VariantIndices == {0, 1, 2, 255}

\* the field values passed to serialize_field
FieldValues == {VLeaf(1), VNone}

\* Serializer::serialize_struct_variant
serialize_struct_variant(variant_index) ==
    [cell |-> <<>>, variant_index |-> variant_index]

\* StructSerializer::serialize_field_inner
serialize_field_inner(self, value) ==
    [self EXCEPT !.cell = Append(self.cell, serialize(value))]

\* StructSerializer::skip_field_inner
skip_field_inner(self) ==
    [self EXCEPT !.variant_index = self.variant_index + 1]

\* StructSerializer::end_inner
end_inner(self) == self.cell

SsInit ==
    /\ MFIdle
    /\ LDIdle
    /\ RegIdle
    /\ PvIdle
    /\ VfIdle
    /\ FnIdle
    /\ SynIdle
    /\ SzIdle

\* the calls made on the StructSerializer so far
SsCalls == Len(ss.val.cell) + (ss.val.variant_index - ss_given)

\* serializer.serialize_struct_variant(name, variant_index, variant, len)
SsStart ==
    /\ ~ss.some
    /\ ss_out = None
    /\ \E variant_index \in VariantIndices :
         /\ ss' = Some(serialize_struct_variant(variant_index))
         /\ ss_given' = variant_index
    /\ UNCHANGED <<sz_pc, sz_x, sz_enc, sz_zd, ss_out>>
    /\ UNCHANGED <<mfVars, ldVars, regVars, pvVars, fnVars, synVars, vfVars>>

\* SerializeStructVariant::serialize_field
SsSerializeField ==
    /\ ss.some
    /\ SsCalls < MaxFields
    /\ \E value \in FieldValues :
         ss' = Some(serialize_field_inner(ss.val, value))
    /\ UNCHANGED <<sz_pc, sz_x, sz_enc, sz_zd, ss_given, ss_out>>
    /\ UNCHANGED <<mfVars, ldVars, regVars, pvVars, fnVars, synVars, vfVars>>

\* SerializeStructVariant::skip_field
SsSkipField ==
    /\ ss.some
    /\ SsCalls < MaxFields
    /\ ss' = Some(skip_field_inner(ss.val))
    /\ UNCHANGED <<sz_pc, sz_x, sz_enc, sz_zd, ss_given, ss_out>>
    /\ UNCHANGED <<mfVars, ldVars, regVars, pvVars, fnVars, synVars, vfVars>>

\* SerializeStructVariant::end; u8::try_from(..).unwrap() panics above 255
SsEnd ==
    /\ ss.some
    /\ ss_out' =
         IF ss.val.variant_index > 255 THEN Err
         ELSE Ok(Cell(<<serialize_u8(ss.val.variant_index)>> \o end_inner(ss.val)))
    /\ ss' = None
    /\ UNCHANGED <<sz_pc, sz_x, sz_enc, sz_zd, ss_given>>
    /\ UNCHANGED <<mfVars, ldVars, regVars, pvVars, fnVars, synVars, vfVars>>

SsNext == SsStart \/ SsSerializeField \/ SsSkipField \/ SsEnd

SpecStruct == SsInit /\ [][SsNext]_vars

\* C30: the first element of the Cell that end returns is the variant_index
\* given to serialize_struct_variant, whatever serialize_field and
\* skip_field calls were made in between.
C30_VariantIndexKept ==
    (~ss.some /\ "ok" \in DOMAIN ss_out) =>
        /\ ss_out.ok
        /\ ss_out.val.kind = "Cell"
        /\ Len(ss_out.val.xs) >= 1
        /\ LDEq(ss_out.val.xs[1], Atom(<<ss_given>>))

(***************************************************************************)
(* The error return of get_coprocessor_or_update_with                      *)
(* (src/public_parameters/registry.rs, lines 119-131 with 72-95).          *)
(***************************************************************************)
\* the (type, key, handle) triples the in-memory registry holds
RegEntries(r) ==
    UNION {{<<ctype, k, r[ctype][k]>> : k \in DOMAIN r[ctype]} : ctype \in DOMAIN r}

\* the step on which thread t returns Err
ReturnsErr(t) == call[t].status = "running" /\ call'[t].status = "err"

\* the requested key is vacant in registry r
Vacant(r, c) == MemKey(c.rc, c.abomonated) \notin DOMAIN TableOf(r, TypeOf(c.lang))

\* u's finished call came after a call of t for the same entry returned Err,
\* with no successful call for that entry before it
LaterThanErr(u, t) ==
    /\ u # t
    /\ Finished(u)
    /\ Finished(t)
    /\ ~call[u].prior.some
    /\ call[t].status = "err"
    /\ EntryOf(call[u]) = EntryOf(call[t])
    /\ t \notin overlap[u]

\* every entry of the registry is the handle a successful call returned
EntriesFromSuccess ==
    \A e \in RegEntries(reg) :
        LET s == <<e[1], e[2][1], e[2][2]>>
        IN  s \in DOMAIN succeeded /\ succeeded[s] = e[3]

\* C28 as stated: when get_coprocessor_or_update_with returns an error the
\* registry gains no entry for the requested (rc, abomonated) key and its
\* existing entries are unchanged, and a later call for the same key performs
\* the disk lookup and the generation again.
C28_ErrThenGenerationAgain ==
    [][ /\ \A t \in Threads :
              ReturnsErr(t) =>
                  /\ RegEntries(reg') = RegEntries(reg)
                  /\ Vacant(reg', call[t])
        /\ EntriesFromSuccess'
        /\ \A u, t \in Threads :
              LaterThanErr(u, t)' =>
                  /\ call'[u].mem_miss
                  /\ call'[u].disk_read
                  /\ call'[u].gen_ran ]_vars

\* C28, amended: when get_coprocessor_or_update_with returns an error the
\* registry gains no entry for the requested (rc, abomonated) key and its
\* existing entries are unchanged (every entry is still the handle of a
\* successful call), and a later call for the same key finds the entry
\* vacant and performs the disk lookup again; it runs the generator again
\* unless that lookup now reads the file.
C28_ErrLeavesRegistry ==
    [][ /\ \A t \in Threads :
              ReturnsErr(t) =>
                  /\ RegEntries(reg') = RegEntries(reg)
                  /\ Vacant(reg', call[t])
        /\ EntriesFromSuccess'
        /\ \A u, t \in Threads :
              LaterThanErr(u, t)' =>
                  /\ call'[u].mem_miss
                  /\ call'[u].disk_read
                  /\ call'[u].disk_miss => call'[u].gen_ran ]_vars

\* a call returned Err with another entry in the registry, and a later call
\* for the same key read the disk, generated again and succeeded
C28_Witness ==
    \E u, t \in Threads :
        /\ LaterThanErr(u, t)
        /\ call[u].status = "ok"
        /\ call[u].mem_miss
        /\ call[u].gen_ran
        /\ RegEntries(reg) # {}
        /\ \E e \in RegEntries(reg) : <<e[1], e[2][1], e[2][2]>> # EntryOf(call[t])

(***************************************************************************)
(* The statement list outer_prove hands to the aggregation.                *)
(***************************************************************************)
\* the input half and the output half of a statement (public_inputs)
StatementInput(s) == SubSeq(s, 1, Len(s) \div 2)

StatementOutput(s) == SubSeq(s, Len(s) \div 2 + 1, Len(s))

\* C27: the statement list handed to the aggregation holds the real
\* multi-frames' public inputs in ascending multi-frame order, then only
\* dummy statements, and the padded list chains: the first dummy's input is
\* the last real multi-frame's output and each dummy's output is the next
\* dummy's input.
C27_PaddedStatementsChain ==
    (pv_pc \in {"assert", "returned"}) =>
        LET k == Len(multi_frames) IN
        /\ Len(statements) >= k
        /\ \A i \in 1..k : statements[i] = public_inputs(multi_frames[i])
        /\ \A i \in (k + 1)..Len(statements) :
              dummy.some /\ statements[i] = public_inputs(dummy.val)
        /\ \A i \in k..(Len(statements) - 1) :
              StatementOutput(statements[i]) = StatementInput(statements[i + 1])

(***************************************************************************)
(* verify_sequential_groth16_proofs (src/proof/groth16.rs, lines 306-328). *)
(* The multi-frames of the list are taken as given: their outer inputs and *)
(* outputs need not chain, and a proof need not be the proof of the        *)
(* multi-frame it is paired with.                                          *)
(***************************************************************************)
\* the outer inputs and outputs of the multi-frames under verification
VfIOs == {<<"a", "nil", "Outermost">>, <<"a", "nil", "Terminal">>}

VfMultiFrames == {MakeMultiFrame(<<Frame(i, o)>>, 1) : i \in VfIOs, o \in VfIOs}

\* a proof of another statement than that of any multi-frame of the list
WrongProof == ProofOf(MakeMultiFrame(<<Frame(<<"b", "nil", "Terminal">>,
                                             <<"b", "nil", "Terminal">>)>>, 1))

\* the verifying keys: ic has one element per public input and one more, or
\* the key is of another circuit
VerifyingKeys == {[ic_len |-> public_input_size + 1], [ic_len |-> public_input_size]}

\* groth16::prepare_verifying_key
prepare_verifying_key(k) == k

\* groth16::verify_proof: an error when the key does not fit the number of
\* inputs, else whether the proof is a proof of these inputs
verify_proof(pvk, proof, inputs) ==
    IF Len(inputs) + 1 # pvk.ic_len THEN Err
    ELSE Ok(proof.statement = inputs)

\* MultiFrame::verify_groth16_proof
verify_groth16_proof(m, pvk, proof) == verify_proof(pvk, proof, public_inputs(m))

RECURSIVE PairLists(_)
\* the lists of at most n (multi-frame, proof) pairs
PairLists(n) ==
    IF n = 0 THEN {<<>>}
    ELSE LET shorter == PairLists(n - 1) IN
         shorter \cup
         { Append(l, <<m, p>>) :
             l \in {s \in shorter : Len(s) = n - 1},
             m \in VfMultiFrames,
             p \in {WrongProof} \cup {ProofOf(q) : q \in VfMultiFrames} }

VfInit ==
    /\ MFIdle
    /\ LDIdle
    /\ RegIdle
    /\ PvIdle
    /\ FnIdle
    /\ SynIdle
    /\ SzIdle
    /\ vf_pc = "loop"
    /\ multiframe_proofs \in PairLists(MaxPairs)
    /\ vk \in {Some(k) : k \in VerifyingKeys}
    /\ vf_i = 0
    /\ vf_ret = None

\* lines 313-325: one iteration of the for loop
VerifyPair ==
    /\ vf_pc = "loop"
    /\ vf_i < Len(multiframe_proofs)
    /\ LET pvk == prepare_verifying_key(vk.val)
           multiframe == multiframe_proofs[vf_i + 1][1]
           proof == multiframe_proofs[vf_i + 1][2]
           verified == verify_groth16_proof(multiframe, pvk, proof)
       IN  IF vf_i > 0 /\ ~precedes(multiframe_proofs[vf_i][1], multiframe)
           THEN /\ vf_ret' = Some(Ok(FALSE))
                /\ vf_pc' = "returned"
                /\ UNCHANGED vf_i
           ELSE IF ~verified.ok
           THEN /\ vf_ret' = Some(Err)
                /\ vf_pc' = "returned"
                /\ UNCHANGED vf_i
           ELSE IF ~verified.val
           THEN /\ vf_ret' = Some(Ok(FALSE))
                /\ vf_pc' = "returned"
                /\ UNCHANGED vf_i
           ELSE /\ vf_i' = vf_i + 1
                /\ UNCHANGED <<vf_pc, vf_ret>>
    /\ UNCHANGED <<multiframe_proofs, vk>>
    /\ UNCHANGED <<mfVars, ldVars, regVars, pvVars, fnVars, synVars, szVars>>

\* line 327: the loop is over, Ok(true)
VerifyReturnTrue ==
    /\ vf_pc = "loop"
    /\ vf_i = Len(multiframe_proofs)
    /\ vf_ret' = Some(Ok(TRUE))
    /\ vf_pc' = "returned"
    /\ UNCHANGED <<multiframe_proofs, vk, vf_i>>
    /\ UNCHANGED <<mfVars, ldVars, regVars, pvVars, fnVars, synVars, szVars>>

VfNext == VerifyPair \/ VerifyReturnTrue

SpecVerify == VfInit /\ [][VfNext]_vars

\* pair j of the list verifies
PairVerifies(j) ==
    verify_groth16_proof(multiframe_proofs[j][1], vk.val, multiframe_proofs[j][2]) = Ok(TRUE)

\* multi-frame j is the first or is preceded by its predecessor
PairChains(j) ==
    j = 1 \/ multiframe_proofs[j - 1][1].output = multiframe_proofs[j][1].input

\* the pairs that break one of the two conditions
Breaks == {j \in 1..Len(multiframe_proofs) : ~(PairChains(j) /\ PairVerifies(j))}

FirstBreak == CHOOSE j \in Breaks : \A l \in Breaks : j <= l

\* C26 as stated: verify_sequential_groth16_proofs returns true iff every
\* pair verifies and every multi-frame after the first is preceded by its
\* predecessor; it returns false at the first pair, in list order, that
\* breaks either condition, and returns true for the empty list.
C26_FalseAtFirstBreak ==
    vf_pc = "returned" =>
        /\ (vf_ret.val = Ok(TRUE)) <=> (Breaks = {})
        /\ multiframe_proofs = <<>> => vf_ret.val = Ok(TRUE)
        /\ Breaks # {} => (vf_i = FirstBreak - 1 /\ vf_ret.val = Ok(FALSE))

\* C26, amended: verify_sequential_groth16_proofs returns true iff every
\* pair verifies and every multi-frame after the first is preceded by its
\* predecessor, and returns true for the empty list; otherwise it returns at
\* the first pair, in list order, that breaks either condition: false, or
\* the verifier's error when that pair chains and its verification fails
\* with an error.
C26_SequentialVerification ==
    vf_pc = "returned" =>
        /\ (vf_ret.val = Ok(TRUE)) <=> (Breaks = {})
        /\ multiframe_proofs = <<>> => vf_ret.val = Ok(TRUE)
        /\ Breaks # {} =>
              LET j == FirstBreak
                  verified == verify_groth16_proof(multiframe_proofs[j][1], vk.val,
                                                   multiframe_proofs[j][2])
              IN  /\ vf_i = j - 1
                  /\ vf_ret.val = IF PairChains(j) /\ ~verified.ok THEN Err ELSE Ok(FALSE)

\* false is returned at the second of three pairs, whose multi-frame is not
\* preceded by the first, with a third pair that does not verify
C26_Witness ==
    /\ vf_pc = "returned"
    /\ Len(multiframe_proofs) = 3
    /\ vf_ret.val = Ok(FALSE)
    /\ vf_i = 1
    /\ ~PairChains(2)
    /\ PairVerifies(2)
    /\ ~PairVerifies(3)

(***************************************************************************)
(* LightData::de on byte strings that need not be the ser of a value.      *)
(***************************************************************************)
\* tag bytes: atoms and cells, small and not, with length fields of 0, 1, 2,
\* 8, 9 and 63 bytes
DeTags == {0, 1, 2, 8, 9, 63, 64, 65, 127, 128, 129, 136, 137, 191, 192, 193, 255}

\* what follows the tag byte: the same byte repeated
DeFills == {0, 1, 9, 127, 128}

\* how many bytes follow the tag byte
DeLens == {0, 1, 2, 3, 8, 9, 10, 63, MaxDeLen}

DeInput(t, f, n) == <<t>> \o [j \in 1..n |-> f]

DeInit ==
    /\ MFIdle
    /\ RegIdle
    /\ PvIdle
    /\ VfIdle
    /\ SzIdle
    /\ SynIdle
    /\ FnIdle
    /\ ld_x = None
    /\ \E t \in DeTags, f \in DeFills, n \in DeLens :
         ld_bytes = Some(DeInput(t, f, n))
    /\ ld_res = None
    /\ ld_pc = "serialized"

DeNext == LDDe

SpecDe == DeInit /\ [][DeNext]_vars

\* C29: LightData::de is total on byte strings: for every input, truncated
\* input and length fields of more than 8 bytes included, it returns Ok or
\* Err, and the length accumulation acc * 256 + byte never overflows usize.
C29_DeTotalNoOverflow ==
    /\ ld_pc # "panicked"
    /\ ld_pc = "done" => ~de_overflows(ld_bytes.val)

====
